---- MODULE Spec2Model ----
(***************************************************************************)
(* Model of the advanced_search package (pkg/v2/advanced_search): the      *)
(* clause parser, the operator table, the literal renderer Clause.Sql and  *)
(* the column-aware compiler AdvancedSqlSearch.                            *)
(*                                                                         *)
(* A Go string is a sequence of one-character strings; Str("ab") is the    *)
(* Go string "ab".  A Go error or pointer result is a sequence of length   *)
(* 0 (nil) or 1 (the value).                                               *)
(***************************************************************************)
EXTENDS Integers, Sequences, FiniteSets, TLC

VARIABLES
    operatorMap,   \* the package-level symbol -> Operator table
    as,            \* <<>> or <<the *AdvancedSqlSearch built by the constructor>>
    err,           \* <<>> or <<the *ParseError the constructor returned>>
    in,            \* <<>> or <<[toks, query, columns]>>: the arguments of the call made
    parseOut,      \* <<>> or <<what a direct AdvancedSearch.Parse call returned>>
    whereStmt,     \* <<>> or <<the WHERE body WhereStatement()/Sql() returned>>
    sortStmt,      \* <<>> or <<the ORDER BY body SortStatement()/Sql() returned>>
    clauseIn,      \* <<>> or <<[clause, name]>>: receiver and argument of a direct Clause.Sql call
    clauseOut,     \* the fragment that call returned
    writing,       \* the assignments operatorMap[symbol] = op that goroutines are executing
    registered,    \* <<>> or <<[symbol, op]>>: the RegisterOperator call that returned last
    reader,        \* <<>> or <<the goroutine running the first package's Sql(): its Parse loop>>
    crashed        \* the runtime stopped the process: concurrent map access

vars == <<operatorMap, in, as, err, parseOut, whereStmt, sortStmt, clauseIn, clauseOut,
          writing, registered, reader, crashed>>

\* the state of the goroutines that use the operator table concurrently
registryVars == <<writing, registered, reader, crashed>>

(***************************************************************************)
(* Strings                                                                 *)
(***************************************************************************)
Str(s) == [i \in 1..Len(s) |-> SubSeq(s, i, i)]

Quote == "'"

UpperLetters == Str("ABCDEFGHIJKLMNOPQRSTUVWXYZ")
LowerLetters == Str("abcdefghijklmnopqrstuvwxyz")
DecDigits == Str("0123456789")
HexLetters == Str("abcdef")

\* strconv's lower(c) / unicode.ToLower on an ASCII character
Lower(c) ==
    IF \E i \in 1..26 : UpperLetters[i] = c
    THEN LowerLetters[CHOOSE i \in 1..26 : UpperLetters[i] = c]
    ELSE c

IsDigit(c) == \E i \in 1..10 : DecDigits[i] = c
DigitVal(c) == (CHOOSE i \in 1..10 : DecDigits[i] = c) - 1
IsHexLetter(c) == \E i \in 1..6 : HexLetters[i] = Lower(c)
HexVal(c) == IF IsDigit(c) THEN DigitVal(c)
             ELSE 9 + (CHOOSE i \in 1..6 : HexLetters[i] = Lower(c))

\* unicode.IsSpace on the characters the model uses
IsSpace(c) == c \in {" ", "\t", "\n", "\r"}

\* faulty variant: the text is left as it is
ToLower_Unchanged(s) == s

ToLower(s) == [i \in 1..Len(s) |-> Lower(s[i])]

\* strings.EqualFold on ASCII text
EqualFold(s, t) == ToLower(s) = ToLower(t)

HasPrefix(s, p) == Len(s) >= Len(p) /\ SubSeq(s, 1, Len(p)) = p
HasSuffix(s, p) == Len(s) >= Len(p) /\ SubSeq(s, Len(s) - Len(p) + 1, Len(s)) = p

\* first index of character c in s, 0 when absent
IndexByte(s, c) ==
    IF \E i \in 1..Len(s) : s[i] = c
    THEN CHOOSE i \in 1..Len(s) : s[i] = c /\ \A j \in 1..(i - 1) : s[j] # c
    ELSE 0

RECURSIVE SplitN_Unbounded(_, _, _)
\* faulty variant: the count is not looked at, every separator splits
SplitN_Unbounded(s, c, n) ==
    LET i == IndexByte(s, c) IN
    IF i = 0 THEN <<s>>
    ELSE <<SubSeq(s, 1, i - 1)>> \o SplitN_Unbounded(SubSeq(s, i + 1, Len(s)), c, n)

RECURSIVE SplitN(_, _, _)
\* strings.SplitN(s, c, n) for n >= 1, and strings.Split(s, c) as n = -1
SplitN(s, c, n) ==
    LET i == IndexByte(s, c) IN
    IF n = 1 \/ i = 0 THEN <<s>>
    ELSE <<SubSeq(s, 1, i - 1)>> \o SplitN(SubSeq(s, i + 1, Len(s)), c, n - 1)

\* faulty variant: empty pieces are left out
Split_DropEmpty(s, c) ==
    SelectSeq(SplitN(s, c, -1), LAMBDA piece : piece # <<>>)

Split(s, c) == SplitN(s, c, -1)

RECURSIVE Fields(_)
\* strings.Fields: the maximal runs of non-space characters
Fields(s) ==
    IF s = <<>> THEN <<>>
    ELSE IF IsSpace(s[1]) THEN Fields(Tail(s))
    ELSE LET stop == IF \E i \in 1..Len(s) : IsSpace(s[i])
                     THEN CHOOSE i \in 1..Len(s) :
                              IsSpace(s[i]) /\ \A j \in 1..(i - 1) : ~IsSpace(s[j])
                     ELSE Len(s) + 1
         IN <<SubSeq(s, 1, stop - 1)>> \o Fields(SubSeq(s, stop, Len(s)))

RECURSIVE Join(_, _)
\* strings.Join
Join(parts, sep) ==
    IF parts = <<>> THEN <<>>
    ELSE IF Len(parts) = 1 THEN parts[1]
    ELSE parts[1] \o sep \o Join(Tail(parts), sep)

RECURSIVE ReplaceQuotes(_)
\* strings.ReplaceAll(value, "'", "''")
ReplaceQuotes(value) ==
    IF Len(value) = 0 THEN <<>>
    ELSE IF Len(value) = 1 THEN (IF value[1] = Quote THEN <<Quote, Quote>> ELSE value)
    ELSE LET h == Len(value) \div 2 IN
         ReplaceQuotes(SubSeq(value, 1, h)) \o ReplaceQuotes(SubSeq(value, h + 1, Len(value)))

(***************************************************************************)
(* strconv.Atoi and strconv.ParseFloat(s, 64): which strings they accept   *)
(***************************************************************************)
IsSign(c) == c = "+" \/ c = "-"

Unsigned(s) == IF s # <<>> /\ IsSign(s[1]) THEN Tail(s) ELSE s

AllDigits(s) == \A i \in 1..Len(s) : IsDigit(s[i])

\* s without its leading "0" characters
StripZeros(s) ==
    IF \A i \in 1..Len(s) : s[i] = "0" THEN <<>>
    ELSE SubSeq(s, CHOOSE i \in 1..Len(s) :
                       s[i] # "0" /\ \A j \in 1..(i - 1) : s[j] = "0", Len(s))

\* a < b for two digit strings read as the fractions 0.a and 0.b
DigitsLess(a, b) ==
    LET n == IF Len(a) > Len(b) THEN Len(a) ELSE Len(b)
        A(i) == IF i <= Len(a) THEN HexVal(a[i]) ELSE 0
        B(i) == IF i <= Len(b) THEN HexVal(b[i]) ELSE 0
    IN \E i \in 1..n : A(i) < B(i) /\ \A j \in 1..(i - 1) : A(j) = B(j)

MaxInt64 == Str("9223372036854775807")
MinInt64Magnitude == Str("9223372036854775808")

\* strconv.Atoi returns a nil error: [+-]?[0-9]+ and the value fits an int64
AtoiOk(s) ==
    LET body == Unsigned(s)
        mag == StripZeros(body)
        limit == IF s # <<>> /\ s[1] = "-" THEN MinInt64Magnitude ELSE MaxInt64
    IN /\ body # <<>>
       /\ AllDigits(body)
       /\ \/ Len(mag) < Len(limit)
          \/ Len(mag) = Len(limit) /\ ~DigitsLess(limit, mag)

\* 2^1024 - 2^970: the least magnitude that rounds to an infinite float64
Float64Overflow ==
    Str("17976931348623158079372897140530341507993413271003782693617377898044")
    \o Str("49682927647509466490179775872070963302864166928879109465555478519404")
    \o Str("02630657488671505820681908902000708383676273854845817711531764475730")
    \o Str("27006985557136695962284291481986083493647529271907416844436551070434")
    \o Str("2711559699508093042880177904174497792")

\* strconv.special: "inf", "infinity" with an optional sign, "nan", any letter case
IsSpecial(s) ==
    LET low == ToLower(s)
    IN Unsigned(low) = Str("inf") \/ Unsigned(low) = Str("infinity") \/ low = Str("nan")

\* strconv.underscoreOK: an underscore stands between two digits, or between
\* a base prefix and a digit
UnderscoreOK(s) ==
    LET body == Unsigned(s)
        prefixed == Len(body) >= 2 /\ body[1] = "0" /\ Lower(body[2]) \in {"b", "o", "x"}
        hex == prefixed /\ Lower(body[2]) = "x"
        Dig(i) == /\ ~(prefixed /\ i = 2)
                  /\ IsDigit(body[i]) \/ (hex /\ i > 2 /\ IsHexLetter(body[i]))
    IN \A i \in 1..Len(body) :
           body[i] = "_" /\ ~(prefixed /\ i <= 2) =>
               /\ i > 1 /\ (Dig(i - 1) \/ (prefixed /\ i = 3))
               /\ i < Len(body) /\ Dig(i + 1)

HasUnderscore(s) == \E i \in 1..Len(s) : s[i] = "_"

\* strconv.readFloat, the mantissa loop: the length of the prefix of s made of
\* digits, underscores and at most one '.'
MantissaLen(s, hex) ==
    LET dot1 == IndexByte(s, ".")
        In(i) == \/ IsDigit(s[i]) \/ s[i] = "_"
                 \/ hex /\ IsHexLetter(s[i])
                 \/ s[i] = "." /\ i = dot1
    IN IF \A i \in 1..Len(s) : In(i) THEN Len(s)
       ELSE (CHOOSE i \in 1..Len(s) : ~In(i) /\ \A j \in 1..(i - 1) : In(j)) - 1

RECURSIVE ReadExponent(_, _)
\* the exponent loop of readFloat: e saturates once it reaches 10000
ReadExponent(s, e) ==
    IF s = <<>> \/ ~(IsDigit(s[1]) \/ s[1] = "_") THEN [e |-> e, rest |-> s]
    ELSE IF s[1] = "_" THEN ReadExponent(Tail(s), e)
    ELSE ReadExponent(Tail(s), IF e < 10000 THEN e * 10 + DigitVal(s[1]) ELSE e)

\* What strconv.readFloat returns is [ok, hex, digits, dp, rest]: the magnitude
\* read is 0.digits * 10^dp (0.digits * 2^dp when hex), rest is the unread tail.
NotRead(hex) == [ok |-> FALSE, hex |-> hex, digits |-> <<>>, dp |-> 0, rest |-> <<>>]

\* readFloat: dp += e * esign
WithExponent(hex, digits, dp, esign, ex) ==
    [ok |-> TRUE, hex |-> hex, digits |-> digits, dp |-> dp + ex.e * esign, rest |-> ex.rest]

\* readFloat after the exponent character and its optional sign
ReadExponentPart(hex, digits, dp, esign, expDigits) ==
    IF expDigits = <<>> \/ ~IsDigit(expDigits[1]) THEN NotRead(hex)
    ELSE WithExponent(hex, digits, dp, esign, ReadExponent(expDigits, 0))

\* readFloat after the mantissa loop
ReadAfterMantissa(hex, sawdigits, digits, dp, rest) ==
    IF ~sawdigits THEN NotRead(hex)
    ELSE IF rest # <<>> /\ Lower(rest[1]) = (IF hex THEN "p" ELSE "e")
    THEN ReadExponentPart(hex, digits, dp,
                          IF Len(rest) >= 2 /\ rest[2] = "-" THEN -1 ELSE 1,
                          Unsigned(Tail(rest)))
    ELSE IF hex THEN NotRead(hex)
    ELSE [ok |-> TRUE, hex |-> hex, digits |-> digits, dp |-> dp, rest |-> rest]

\* the digits the mantissa loop keeps (leading zeros dropped) and its dp, from
\* the digits before and after the '.'
MantissaDigits(hex, intPart, fracPart, rest) ==
    ReadAfterMantissa(hex, intPart # <<>> \/ fracPart # <<>>,
        ToLower(IF StripZeros(intPart) # <<>> THEN StripZeros(intPart) \o fracPart
                ELSE StripZeros(fracPart)),
        (IF hex THEN 4 ELSE 1)
            * (IF StripZeros(intPart) # <<>> THEN Len(StripZeros(intPart))
               ELSE Len(StripZeros(fracPart)) - Len(fracPart)),
        rest)

IsMantissaDigit(c) == c # "_" /\ c # "."

\* m is the text the mantissa loop consumed, dot the index of its '.' or 0
SplitMantissa(hex, m, dot, rest) ==
    MantissaDigits(hex,
        SelectSeq(SubSeq(m, 1, IF dot = 0 THEN Len(m) ELSE dot - 1), IsMantissaDigit),
        IF dot = 0 THEN <<>> ELSE SelectSeq(SubSeq(m, dot + 1, Len(m)), IsMantissaDigit),
        rest)

ReadMantissa(hex, mant, n) ==
    SplitMantissa(hex, SubSeq(mant, 1, n), IndexByte(SubSeq(mant, 1, n), "."),
                  SubSeq(mant, n + 1, Len(mant)))

\* readFloat's base prefix test: i+2 < len(s) && s[i] == '0' && lower(s[i+1]) == 'x'
HexPrefixed(body) == Len(body) > 2 /\ body[1] = "0" /\ Lower(body[2]) = "x"

ReadBody(hex, mant) == ReadMantissa(hex, mant, MantissaLen(mant, hex))

\* strconv.readFloat
ReadFloat(s) ==
    ReadBody(HexPrefixed(Unsigned(s)),
             IF HexPrefixed(Unsigned(s)) THEN SubSeq(Unsigned(s), 3, Len(Unsigned(s)))
             ELSE Unsigned(s))

\* the decimal magnitude 0.digits * 10^dp rounds to +-Inf
DecimalOverflows(digits, dp) ==
    /\ digits # <<>>
    /\ \/ dp > Len(Float64Overflow)
       \/ dp = Len(Float64Overflow) /\ ~DigitsLess(digits, Float64Overflow)

\* the bits of a string of hexadecimal digits
BitsOf(digits) ==
    [k \in 1..(4 * Len(digits)) |->
        LET v == HexVal(digits[(k + 3) \div 4])
            pos == (k - 1) % 4
        IN IF pos = 0 THEN v \div 8
           ELSE IF pos = 1 THEN (v \div 4) % 2
           ELSE IF pos = 2 THEN (v \div 2) % 2
           ELSE v % 2]

\* bits, whose leading one bit is bits[lead] and weighs 2^top, round to 2^1024
\* or more: also when 54 leading one bits round up to 53
BitsOverflow(bits, lead, top) ==
    \/ top >= 1024
    \/ top = 1023 /\ Len(bits) - lead + 1 >= 54 /\ \A i \in lead..(lead + 53) : bits[i] = 1

LeadingOne(bits) ==
    CHOOSE i \in 1..Len(bits) : bits[i] = 1 /\ \A j \in 1..(i - 1) : bits[j] = 0

LeadingOverflow(bits, dp, lead) == BitsOverflow(bits, lead, dp - lead)

\* the hexadecimal magnitude 0.digits * 2^dp rounds to +-Inf
HexOverflows(digits, dp) ==
    digits # <<>> /\ LeadingOverflow(BitsOf(digits), dp, LeadingOne(BitsOf(digits)))

\* r is what readFloat returned for s: all of s was read, its underscores are
\* well placed and the value is in range
FloatAccepted(s, r) ==
    /\ r.ok
    /\ r.rest = <<>>
    /\ HasUnderscore(s) => UnderscoreOK(s)
    /\ IF r.hex THEN ~HexOverflows(r.digits, r.dp)
       ELSE ~DecimalOverflows(r.digits, r.dp)

\* strconv.ParseFloat(s, 64) returns a nil error
ParseFloatOk(s) == IsSpecial(s) \/ FloatAccepted(s, ReadFloat(s))

(***************************************************************************)
(* Operators and the operator table                                        *)
(***************************************************************************)
Equal == 0
NotEqual == 1
GreaterThan == 2
GreaterThanOrEqual == 3
LessThan == 4
LessThanOrEqual == 5
Null == 6
NotNull == 7
Like == 8
UnknownOperator == 9

Operators == Equal..UnknownOperator

\* Operator.String
Operator_String(o) ==
    CASE o = Equal -> Str("=")
      [] o = NotEqual -> Str("!=")
      [] o = GreaterThan -> Str(">")
      [] o = GreaterThanOrEqual -> Str(">=")
      [] o = LessThan -> Str("<")
      [] o = LessThanOrEqual -> Str("<=")
      [] o = Null -> Str("IS NULL")
      [] o = NotNull -> Str("IS NOT NULL")
      [] o = Like -> Str("LIKE")
      [] OTHER -> Str("unknown")

\* the initial value of var operatorMap
DefaultOperatorMap ==
    (Str("=") :> Equal) @@ (Str("!=") :> NotEqual)
    @@ (Str(">") :> GreaterThan) @@ (Str(">=") :> GreaterThanOrEqual)
    @@ (Str("<") :> LessThan) @@ (Str("<=") :> LessThanOrEqual)
    @@ (Str("null") :> Null) @@ (Str("notnull") :> NotNull)
    @@ (Str("like") :> Like)

(***************************************************************************)
(* Clause and its rendering                                                *)
(***************************************************************************)
NewClause(field, operator, value) ==
    [Field |-> field, Operator |-> operator, Value |-> value]

\* faulty variant: the value is wrapped without being escaped
escapeString_Unescaped(value) == value

escapeString(value) == ReplaceQuotes(value)

\* faulty variant: only the integer parse is tried
IsNumericValue_IntegerOnly(value) == AtoiOk(value)

\* the default branch of Clause.Sql: is the value an integer or a float
IsNumericValue(value) == AtoiOk(value) \/ ParseFloatOk(value)

\* faulty variant: Like falls through to the numeric inference of the default branch
LikeFragment_Inferred(field, c) ==
    IF AtoiOk(c.Value) \/ ParseFloatOk(c.Value)
    THEN field \o Str(" ") \o Operator_String(c.Operator) \o Str(" ") \o c.Value
    ELSE field \o Str(" ") \o Operator_String(c.Operator) \o Str(" '%") \o c.Value \o Str("%'")

\* the Like branch of Clause.Sql: fmt.Sprintf("%s %s '%%%s%%'", field, c.Operator, c.Value)
LikeFragment(field, c) ==
    field \o Str(" ") \o Operator_String(c.Operator) \o Str(" '%") \o c.Value \o Str("%'")

\* Clause.Sql(name)
Clause_Sql(c, name) ==
    LET field == IF name # <<>> THEN name ELSE c.Field
        op == Operator_String(c.Operator)
    IN IF c.Operator = Null \/ c.Operator = NotNull
       THEN field \o Str(" ") \o op
       ELSE IF c.Operator = Like
       THEN LikeFragment(field, c)
       ELSE IF IsNumericValue(c.Value)
       THEN field \o Str(" ") \o op \o Str(" ") \o c.Value
       ELSE field \o Str(" ") \o op \o Str(" '") \o escapeString(c.Value) \o Str("'")

(***************************************************************************)
(* Sort clauses and the parser                                             *)
(***************************************************************************)
Asc == 0
Desc == 1

\* parseSortClause
\* faulty variant: the field is the text before the first "__"
parseSortClause_FirstSeparator(sort) ==
    LET cuts == {i \in 1..(Len(sort) - 1) : sort[i] = "_" /\ sort[i + 1] = "_"}
        field == IF cuts = {} THEN sort
                 ELSE SubSeq(sort, 1, (CHOOSE i \in cuts : \A j \in cuts : i <= j) - 1)
    IN IF HasSuffix(sort, Str("__desc")) THEN [Field |-> field, Direction |-> Desc]
       ELSE [Field |-> field, Direction |-> Asc]

parseSortClause(sort) ==
    IF HasSuffix(sort, Str("__asc"))
    THEN [Field |-> SubSeq(sort, 1, Len(sort) - 5), Direction |-> Asc]
    ELSE IF HasSuffix(sort, Str("__desc"))
    THEN [Field |-> SubSeq(sort, 1, Len(sort) - 6), Direction |-> Desc]
    ELSE [Field |-> sort, Direction |-> Asc]

\* faulty variant: every ParseError carries the same cause
ParseError_OneCause(part, cause) ==
    [clauses |-> <<>>, sortClauses |-> <<>>, isNil |-> TRUE,
     err |-> <<[Part |-> part, Cause |-> "invalid query format"]>>]

ParseError(part, cause) ==
    [clauses |-> <<>>, sortClauses |-> <<>>, isNil |-> TRUE,
     err |-> <<[Part |-> part, Cause |-> cause]>>]

RECURSIVE StripWrapperQuotes_Trim(_)
\* faulty variant: every leading and every trailing quote is removed
StripWrapperQuotes_Trim(value) ==
    IF value # <<>> /\ value[1] = Quote THEN StripWrapperQuotes_Trim(Tail(value))
    ELSE IF value # <<>> /\ value[Len(value)] = Quote
    THEN StripWrapperQuotes_Trim(SubSeq(value, 1, Len(value) - 1))
    ELSE value

\* the wrapper-quote stripping of Parse
StripWrapperQuotes(value) ==
    IF Len(value) >= 2 /\ value[1] = Quote /\ value[Len(value)] = Quote
    THEN SubSeq(value, 2, Len(value) - 1)
    ELSE value

\* faulty variant: the trailing segment of a null or notnull token is kept as the value
ClauseValue_KeepsSegment(operator, clauseParts) ==
    IF Len(clauseParts) = 3 THEN StripWrapperQuotes(clauseParts[3]) ELSE <<>>

\* the value Parse gives the clause: empty for Null and NotNull
ClauseValue(operator, clauseParts) ==
    IF operator # Null /\ operator # NotNull
    THEN StripWrapperQuotes(clauseParts[3])
    ELSE <<>>

RECURSIVE ParseParts(_, _, _)
\* the loop of Parse over queryParts, with the clauses and sort clauses so far
ParseParts(queryParts, clauses, sortClauses) ==
    IF queryParts = <<>>
    THEN [clauses |-> clauses, sortClauses |-> sortClauses, isNil |-> FALSE, err |-> <<>>]
    ELSE
    LET part == Head(queryParts)
        sortParts == SplitN(part, ":", 2)
        sorts == Split(sortParts[2], ",")
        clauseParts == SplitN(part, ":", 3)
        field == clauseParts[1]
        operatorKey == clauseParts[2]
        ok == ToLower(operatorKey) \in DOMAIN operatorMap
        operator == operatorMap[ToLower(operatorKey)]
        value == ClauseValue(operator, clauseParts)
    IN IF HasPrefix(part, Str("sort:"))
       THEN IF Len(sortParts) # 2
            THEN ParseError(part, "invalid sort format")
            ELSE ParseParts(Tail(queryParts), clauses,
                            sortClauses \o [i \in 1..Len(sorts) |-> parseSortClause(sorts[i])])
       ELSE IF Len(clauseParts) < 2
       THEN ParseError(part, "invalid query format")
       ELSE IF ~ok
       THEN ParseError(part, "unsupported operator")
       ELSE IF operator # Null /\ operator # NotNull /\ Len(clauseParts) # 3
       THEN ParseError(part, "missing value")
       ELSE ParseParts(Tail(queryParts), Append(clauses, NewClause(field, operator, value)),
                       sortClauses)

\* faulty variant: a query without tokens is reported as an error
Parse_EmptyIsError(query) ==
    IF Len(Fields(query)) = 0 THEN ParseError(query, "empty query")
    ELSE ParseParts(Fields(query), <<>>, <<>>)

\* AdvancedSearch.Parse: [clauses, sortClauses, isNil, err]; isNil tells that
\* the two slices returned are nil
Parse(query) ==
    LET queryParts == Fields(query) IN
    IF Len(queryParts) = 0
    THEN [clauses |-> <<>>, sortClauses |-> <<>>, isNil |-> TRUE, err |-> <<>>]
    ELSE ParseParts(queryParts, <<>>, <<>>)

(***************************************************************************)
(* Columns and the compiler                                                *)
(***************************************************************************)
StringType == 0
IntType == 1
FloatType == 2
BoolType == 3
DateType == 4
DateTimeType == 5

ColumnTypes == {StringType, IntType, FloatType, BoolType, DateType, DateTimeType}

Column(name, type, aliases) == [Name |-> name, Type |-> type, Aliases |-> aliases]

\* NewAdvancedSqlSearch after as.base.Parse() returned p
\* faulty variant: the error is returned together with an instance
Constructed_WithInstance(query, columns, p) ==
    [as |-> <<[query |-> query, columns |-> columns,
               whereClauses |-> p.clauses, sortClauses |-> p.sortClauses]>>,
     err |-> p.err]

\* faulty variant: a clause whose field is no column of the call is an error
Constructed_Whitelisted(query, columns, p) ==
    LET known(field) ==
            \E i \in 1..Len(columns) :
                \/ EqualFold(columns[i].Name, field)
                \/ \E j \in 1..Len(columns[i].Aliases) :
                       EqualFold(columns[i].Aliases[j], field)
        strangers == {i \in 1..Len(p.clauses) : ~known(p.clauses[i].Field)}
    IN IF p.err # <<>>
       THEN [as |-> <<>>, err |-> p.err]
       ELSE IF columns # <<>> /\ strangers # {}
       THEN [as |-> <<>>,
             err |-> <<[Part |-> p.clauses[CHOOSE i \in strangers :
                                              \A j \in strangers : i <= j].Field,
                        Cause |-> "field is not allowed"]>>]
       ELSE [as |-> <<[query |-> query, columns |-> columns,
                       whereClauses |-> p.clauses, sortClauses |-> p.sortClauses]>>,
             err |-> <<>>]

Constructed(query, columns, p) ==
    IF p.err # <<>>
    THEN [as |-> <<>>, err |-> p.err]
    ELSE [as |-> <<[query |-> query, columns |-> columns,
                    whereClauses |-> p.clauses, sortClauses |-> p.sortClauses]>>,
          err |-> <<>>]

\* NewAdvancedSqlSearch: [as, err]
NewAdvancedSqlSearch(query, columns) == Constructed(query, columns, Parse(query))

\* faulty variant: names and aliases are compared case-sensitively
ColumnMatches_Exact(col, fieldName) ==
    \/ col.Name = fieldName
    \/ \E i \in 1..Len(col.Aliases) : col.Aliases[i] = fieldName

\* whether the loop body of getColumnByFieldName returns col
ColumnMatches(col, fieldName) ==
    \/ EqualFold(col.Name, fieldName)
    \/ \E i \in 1..Len(col.Aliases) : EqualFold(col.Aliases[i], fieldName)

\* faulty variant: a column whose name matches is preferred to an earlier
\* column whose alias matches
getColumnByFieldName_NameFirst(self, fieldName) ==
    LET named == {i \in 1..Len(self.columns) : EqualFold(self.columns[i].Name, fieldName)}
        hits == {i \in 1..Len(self.columns) : ColumnMatches(self.columns[i], fieldName)}
    IN IF named # {} THEN <<self.columns[CHOOSE i \in named : \A j \in named : i <= j]>>
       ELSE IF hits = {} THEN <<>>
       ELSE <<self.columns[CHOOSE i \in hits : \A j \in hits : i <= j]>>

\* getColumnByFieldName: <<>> or <<the first column that matches>>
getColumnByFieldName(self, fieldName) ==
    LET hits == {i \in 1..Len(self.columns) : ColumnMatches(self.columns[i], fieldName)}
    IN IF hits = {} THEN <<>>
       ELSE <<self.columns[CHOOSE i \in hits : \A j \in hits : i <= j]>>

\* faulty variant: the fragments are joined as alternatives
WhereSeparator_Or == Str(" OR ")

\* the separator WhereStatement joins with
WhereSeparator == Str(" AND ")

\* faulty variant: a clause whose field has no column is rendered under its own field
AppendClauseSql_KeepUnknown(whereClauses, clause, column) ==
    IF column # <<>> THEN Append(whereClauses, Clause_Sql(clause, column[1].Name))
    ELSE Append(whereClauses, Clause_Sql(clause, <<>>))

\* faulty variant: a value that is no number is refused for a numeric column
AppendClauseSql_Typed(whereClauses, clause, column) ==
    IF column = <<>> THEN whereClauses
    ELSE IF column[1].Type \in {IntType, FloatType} /\ ~IsNumericValue(clause.Value)
    THEN whereClauses
    ELSE Append(whereClauses, Clause_Sql(clause, column[1].Name))

\* the body of the loop of WhereStatement: column is what getColumnByFieldName returned
AppendClauseSql(whereClauses, clause, column) ==
    IF column # <<>> THEN Append(whereClauses, Clause_Sql(clause, column[1].Name))
    ELSE whereClauses

RECURSIVE WhereFragments(_, _, _)
\* the loop of WhereStatement over as.whereClauses
WhereFragments(self, clauses, whereClauses) ==
    IF clauses = <<>> THEN whereClauses
    ELSE WhereFragments(self, Tail(clauses),
             AppendClauseSql(whereClauses, Head(clauses),
                             getColumnByFieldName(self, Head(clauses).Field)))

JoinNonEmpty(parts, sep) == IF Len(parts) = 0 THEN <<>> ELSE Join(parts, sep)

\* WhereStatement
WhereStatement(self) ==
    JoinNonEmpty(WhereFragments(self, self.whereClauses, <<>>), WhereSeparator)

\* faulty variant: the direction of the sort clause is not looked at
AppendSortSql_AlwaysAsc(sortClauses, sortClause, column) ==
    IF column # <<>> THEN Append(sortClauses, column[1].Name \o Str(" ASC"))
    ELSE sortClauses

\* the body of the loop of SortStatement
AppendSortSql(sortClauses, sortClause, column) ==
    IF column # <<>>
    THEN Append(sortClauses,
                column[1].Name \o Str(" ")
                \o (IF sortClause.Direction = Desc THEN Str("DESC") ELSE Str("ASC")))
    ELSE sortClauses

RECURSIVE SortFragments(_, _, _)
\* the loop of SortStatement over as.sortClauses
SortFragments(self, clauses, sortClauses) ==
    IF clauses = <<>> THEN sortClauses
    ELSE SortFragments(self, Tail(clauses),
             AppendSortSql(sortClauses, Head(clauses),
                           getColumnByFieldName(self, Head(clauses).Field)))

\* SortStatement
SortStatement(self) ==
    JoinNonEmpty(SortFragments(self, self.sortClauses, <<>>), Str(", "))

(***************************************************************************)
(* Inputs: queries assembled from tokens, column sets, clauses             *)
(***************************************************************************)
MaxTokens == 2
BigLen == 310

\* a predicate token is its colon-separated parts, a sort token its entries
Pred(parts) == [kind |-> "pred", parts |-> parts]
SortTok(entries) == [kind |-> "sort", parts |-> entries]

TokenText(t) ==
    IF t.kind = "sort" THEN Str("sort:") \o Join(t.parts, Str(","))
    ELSE Join(t.parts, Str(":"))

GoodPreds ==
    { Pred(<<Str("field1"), Str("="), Str("value1")>>),
      Pred(<<Str("f1"), Str("="), Str("value1")>>),
      Pred(<<Str("F1"), Str("="), Str("value1")>>),
      Pred(<<Str("field2"), Str(">"), Str("10")>>),
      Pred(<<Str("field3"), Str("="), Str("value1")>>),
      Pred(<<Str("field1"), Str("!="), Str("'it's'")>>),
      Pred(<<Str("f1"), Str("LIKE"), Str("o'x")>>),
      Pred(<<Str("field1"), Str("null")>>),
      Pred(<<Str("field1"), Str("null"), Str("anything")>>),
      Pred(<<Str("Field2"), Str("NotNull"), Str("'x'")>>) }

BadPreds ==
    { Pred(<<Str("field1")>>),
      Pred(<<Str("field1"), Str("=value1")>>),
      Pred(<<Str("field2"), Str("=")>>) }

SortToks ==
    { SortTok(<<Str("field2"), Str("F1__desc")>>),
      SortTok(<<Str("field3")>>) }

Tokens == GoodPreds \cup BadPreds \cup SortToks

TokenSeqs == UNION {[1..n -> Tokens] : n \in 0..MaxTokens}

Separators == {Str(" ")}

QueryText(toks, sep) == Join([i \in 1..Len(toks) |-> TokenText(toks[i])], sep)

Field1Column == Column(Str("field1"), StringType, <<Str("f1")>>)
Field2Column == Column(Str("field2"), IntType, <<Str("f2")>>)

ColumnSets == { <<>>, <<Field1Column>>, <<Field1Column, Field2Column>> }

Digits9(n) == [i \in 1..n |-> "9"]

ClauseValues ==
    { Str("admin' OR '1'='1"), Str("O'Reilly"), Str("admin' --"), Str("value1"),
      Str("'"), Str("''"), Str(""), Str("20% off!"), Str("1a"),
      Str("25"), Str("19.99"), Str("-5"), Str("-0.5"), Str("5."), Str(".5"), Str("007"),
      Str("1.2.3"), Str("-"), Str("."), Str("5-"),
      Str("1e5"), Str("NaN"), Str("-Inf"), Str("0x1p4"), Str("1_000"), Str("true"),
      Digits9(Len(Float64Overflow) - 1), Digits9(BigLen),
      Str("-") \o Digits9(BigLen) \o Str(".5") }

ClauseFields == {Str("username")}
ClauseNames == {Str(""), Str("user_name")}

Clauses == {NewClause(f, o, v) : f \in ClauseFields, o \in Operators, v \in ClauseValues}

(***************************************************************************)
(* The calls                                                               *)
(***************************************************************************)
Init ==
    /\ operatorMap = DefaultOperatorMap
    /\ in = <<>>
    /\ as = <<>>
    /\ err = <<>>
    /\ parseOut = <<>>
    /\ whereStmt = <<>>
    /\ sortStmt = <<>>
    /\ clauseIn = <<>>
    /\ clauseOut = <<>>
    /\ writing = {}
    /\ registered = <<>>
    /\ reader = <<>>
    /\ crashed = FALSE

\* nothing has been called yet: every behaviour is one use of the package
Idle == in = <<>> /\ clauseIn = <<>>

\* what a call of the constructor leaves: r is what NewAdvancedSqlSearch returned
Returned(toks, query, columns, r) ==
    /\ in' = <<[toks |-> toks, query |-> query, columns |-> columns]>>
    /\ as' = r.as
    /\ err' = r.err

\* as, err := NewAdvancedSqlSearch(query, columns...)
Call_NewAdvancedSqlSearch(toks, query, columns) ==
    /\ Idle
    /\ Returned(toks, query, columns, NewAdvancedSqlSearch(query, columns))
    /\ UNCHANGED <<operatorMap, parseOut, whereStmt, sortStmt, clauseIn, clauseOut>>
    /\ UNCHANGED registryVars

\* NewAdvancedSearch(query).Parse()
Call_Parse(toks, query) ==
    /\ Idle
    /\ in' = <<[toks |-> toks, query |-> query, columns |-> <<>>]>>
    /\ parseOut' = <<Parse(query)>>
    /\ UNCHANGED <<operatorMap, as, err, whereStmt, sortStmt, clauseIn, clauseOut>>
    /\ UNCHANGED registryVars

\* as.WhereStatement()
Call_WhereStatement ==
    /\ as # <<>>
    /\ whereStmt' = <<WhereStatement(as[1])>>
    /\ UNCHANGED <<operatorMap, in, as, err, parseOut, sortStmt, clauseIn, clauseOut>>
    /\ UNCHANGED registryVars

\* as.SortStatement()
Call_SortStatement ==
    /\ as # <<>>
    /\ sortStmt' = <<SortStatement(as[1])>>
    /\ UNCHANGED <<operatorMap, in, as, err, parseOut, whereStmt, clauseIn, clauseOut>>
    /\ UNCHANGED registryVars

\* as.Sql()
Call_Sql ==
    /\ as # <<>>
    /\ whereStmt' = <<WhereStatement(as[1])>>
    /\ sortStmt' = <<SortStatement(as[1])>>
    /\ UNCHANGED <<operatorMap, in, as, err, parseOut, clauseIn, clauseOut>>
    /\ UNCHANGED registryVars

\* c.Sql(name) on a clause built by the caller
Call_Clause_Sql(c, name) ==
    /\ Idle
    /\ clauseIn' = <<[clause |-> c, name |-> name]>>
    /\ clauseOut' = Clause_Sql(c, name)
    /\ UNCHANGED <<operatorMap, in, as, err, parseOut, whereStmt, sortStmt>>
    /\ UNCHANGED registryVars

Next ==
    \/ Idle /\ \E toks \in TokenSeqs, sep \in Separators, columns \in ColumnSets :
                   Call_NewAdvancedSqlSearch(toks, QueryText(toks, sep), columns)
    \/ Idle /\ \E toks \in TokenSeqs, sep \in Separators :
                   Call_Parse(toks, QueryText(toks, sep))
    \/ Idle /\ \E c \in Clauses, name \in ClauseNames : Call_Clause_Sql(c, name)
    \/ Call_WhereStatement
    \/ Call_SortStatement
    \/ Call_Sql

Spec == Init /\ [][Next]_vars

(***************************************************************************)
(* Examples: the queries of the tests and of the documentation, sort       *)
(* tokens assembled from entries, operator symbols in every letter case    *)
(***************************************************************************)
MaxEntries == 2

Upper(c) ==
    IF \E i \in 1..26 : LowerLetters[i] = c
    THEN UpperLetters[CHOOSE i \in 1..26 : LowerLetters[i] = c]
    ELSE c

\* the spellings of a lower-case symbol in every letter case
CaseVariants(symbol) ==
    {[i \in 1..Len(symbol) |-> IF i \in U THEN Upper(symbol[i]) ELSE symbol[i]] :
        U \in SUBSET (1..Len(symbol))}

BuiltinSymbols ==
    {Str("="), Str("!="), Str(">"), Str(">="), Str("<"), Str("<="),
     Str("null"), Str("notnull"), Str("like")}

OtherSymbols ==
    {Str(""), Str("=="), Str("<>"), Str("=value1"), Str("nul"), Str("likes"),
     Str("contains"), Str("IN")}

SymbolPreds ==
    {Pred(<<Str("field1"), symbol, Str("value1")>>) :
        symbol \in UNION {CaseVariants(b) : b \in BuiltinSymbols} \cup OtherSymbols}

EntryStems ==
    {Str("field1"), Str("field__1"), Str("field__2"), Str("f__asc"), Str("")}
EntrySuffixes == {Str(""), Str("__asc"), Str("__desc")}
Entries == {stem \o suffix : stem \in EntryStems, suffix \in EntrySuffixes}

EntrySortToks ==
    {SortTok(entries) : entries \in UNION {[1..n -> Entries] : n \in 1..MaxEntries}}

\* the columns of the documentation's example, and a description column
DocColumns ==
    << Column(Str("user_name"), StringType, <<Str("name"), Str("username")>>),
       Column(Str("user_email"), StringType, <<Str("email")>>),
       Column(Str("age"), IntType, <<>>),
       Column(Str("created_at"), DateTimeType, <<Str("created")>>),
       Column(Str("active"), BoolType, <<>>) >>
DescriptionColumn == Column(Str("description"), StringType, <<>>)

\* a column without a name, and a column whose alias is the name of a later one
EmptyNameColumns == <<Column(Str(""), StringType, <<Str("f9")>>)>>
CollidingColumns ==
    <<Column(Str("first"), StringType, <<Str("field2"), Str("f1")>>),
      Field2Column, Field1Column>>

ExampleColumnSets ==
    ColumnSets \cup {DocColumns, <<DescriptionColumn>>, EmptyNameColumns, CollidingColumns}

DocQuery ==
    << Pred(<<Str("name"), Str("="), Str("John")>>),
       Pred(<<Str("email"), Str("like"), Str("@gmail.com")>>),
       Pred(<<Str("age"), Str(">"), Str("25")>>),
       Pred(<<Str("active"), Str("="), Str("true")>>),
       SortTok(<<Str("created__desc")>>) >>

ExampleQueries ==
    { <<>>,
      <<Pred(<<Str("field1"), Str("="), Str("value1")>>),
        SortTok(<<Str("field1"), Str("field2")>>)>>,
      <<Pred(<<Str("field1"), Str("="), Str("value1")>>),
        Pred(<<Str("field2"), Str(">"), Str("10")>>),
        SortTok(<<Str("field1"), Str("field2")>>)>>,
      <<Pred(<<Str("f1"), Str("="), Str("value1")>>), SortTok(<<Str("f1")>>)>>,
      <<Pred(<<Str("field3"), Str("="), Str("value1")>>), SortTok(<<Str("field3")>>)>>,
      <<SortTok(<<Str("field2__desc"), Str("F1__asc"), Str("field3"), Str("f2")>>),
        Pred(<<Str("field1"), Str("="), Str("value1")>>)>>,
      <<SortTok(<<Str("created__desc"), Str("AGE"), Str("description__desc")>>)>>,
      <<SortTok(<<Str("field1__desc"), Str("field2__asc"), Str("field3")>>)>>,
      <<Pred(<<Str("field1"), Str("=value1")>>)>>,
      <<Pred(<<Str("description"), Str("like"), Str("20%off!")>>)>>,
      <<Pred(<<Str("description"), Str("like"), Str("20% off!")>>)>>,
      <<Pred(<<Str("name"), Str("="), Str("'JohnDoe'")>>)>>,
      <<Pred(<<Str("name"), Str("="), Str("'John Doe'")>>)>>,
      DocQuery }

\* the values of the one-predicate queries below
EdgeValues ==
    {Str("abc"), Str("25"), Str("'25'"), Str("'"), Str("'abc"), Str("abc'"), Str("''"),
     Str("''x''"), Str("'it's'"), Str("'value1!@#$%^&*()'"), Str("12:30"), Str(":"),
     Str("a:b:c"), Str("2024-13-45")}

\* queries at the edges of the grammar
EdgeQueries ==
    {<<Pred(<<Str("field2"), Str("="), value>>)>> : value \in EdgeValues}
    \cup
    { <<Pred(<<Str("field1")>>)>>,
      <<Pred(<<Str("field1"), Str("value1")>>)>>,
      <<Pred(<<Str("field1"), Str("=")>>)>>,
      <<Pred(<<Str("field1"), Str("bogus")>>)>>,
      <<Pred(<<Str("field1"), Str("unsupported"), Str("value1")>>)>>,
      <<Pred(<<Str("field1"), Str("="), Str("value1")>>),
        Pred(<<Str("field1"), Str("=")>>)>>,
      <<Pred(<<Str("field1"), Str("bogus")>>), Pred(<<Str("field1")>>)>>,
      <<Pred(<<Str("t"), Str("="), Str("12:30")>>)>>,
      <<Pred(<<Str(""), Str("<="), Str("a:b:c")>>)>>,
      <<Pred(<<Str("field1"), Str("Null"), Str("a:b")>>)>>,
      <<Pred(<<Str("created"), Str(">"), Str("2024-13-45")>>)>>,
      <<Pred(<<Str("F9"), Str("="), Str("value1")>>), SortTok(<<Str("F9__desc")>>)>>,
      <<SortTok(<<Str("=:x")>>)>>,
      <<SortTok(<<Str("a"), Str(""), Str("b")>>)>>,
      <<SortTok(<<Str("")>>), Pred(<<Str("field1"), Str("="), Str("value1")>>)>>,
      <<Pred(<<Str("field1"), Str("="), Str("value1")>>),
        SortTok(<<Str("field1:=:value1")>>)>>,
      <<Pred(<<Str("field2"), Str(">"), Str("10")>>),
        Pred(<<Str("F1"), Str("like"), Str("x")>>),
        SortTok(<<Str("field2"), Str("F2__desc"), Str("f1")>>)>> }

\* white space a caller may put around a query
Paddings == {Str(""), Str(" "), <<"\t", "\n">>}

Padded(toks, pad) == pad \o QueryText(toks, Str(" ")) \o pad

ExamplesNext ==
    \/ Idle /\ \E toks \in ExampleQueries \cup EdgeQueries, pad \in Paddings,
                      columns \in ExampleColumnSets :
                   Call_NewAdvancedSqlSearch(toks, Padded(toks, pad), columns)
    \/ Idle /\ \E toks \in ExampleQueries \cup EdgeQueries, pad \in Paddings :
                   Call_Parse(toks, Padded(toks, pad))
    \/ Idle /\ \E t \in SymbolPreds \cup EntrySortToks :
                   Call_Parse(<<t>>, TokenText(t))
    \/ Call_WhereStatement
    \/ Call_SortStatement
    \/ Call_Sql

ExamplesSpec == Init /\ [][ExamplesNext]_vars

(***************************************************************************)
(* The first package (Parse without sort tokens, Sql() without typed       *)
(* columns, RegisterOperator): goroutines that register operators while    *)
(* another one compiles.  The assignment operatorMap[symbol] = op is not   *)
(* atomic and nothing guards the map: a lookup or a second assignment made *)
(* while an assignment is executing is a data race, whose outcome is the   *)
(* table before it, the table after it, or the runtime's fatal error.      *)
(***************************************************************************)
MaxWriters == 2

RegisteredSymbols == {Str("contains"), Str("Contains"), Str("like")}
RegisteredOperators == {Like, UnknownOperator}

RegistryQueries ==
    { <<>>,
      <<Pred(<<Str("field1")>>)>>,
      <<Pred(<<Str("field1"), Str("contains"), Str("value1")>>)>>,
      <<Pred(<<Str("field1"), Str("Contains"), Str("value1")>>)>>,
      <<Pred(<<Str("field1"), Str("like"), Str("value1")>>)>> }

\* operatorMap once the assignment w has been made
Assigned(table, w) == (w.symbol :> w.op) @@ table

\* what a map access made now may find: the table, or under a race also the
\* table as an executing assignment leaves it
VisibleTables == {operatorMap} \cup {Assigned(operatorMap, w) : w \in writing}

\* whether the runtime may stop the process at a map access made now
MayCrash == IF writing # {} THEN {FALSE, TRUE} ELSE {FALSE}

\* one iteration of the loop of the first package's Parse: [clause, err, looked]
ParseTokenV1(part, clauseParts, table) ==
    IF Len(clauseParts) < 2
    THEN [clause |-> <<>>, err |-> ParseError(part, "invalid query format").err,
          looked |-> FALSE]
    ELSE IF ToLower(clauseParts[2]) \notin DOMAIN table
    THEN [clause |-> <<>>, err |-> ParseError(part, "unsupported operator").err,
          looked |-> TRUE]
    ELSE IF table[ToLower(clauseParts[2])] \notin {Null, NotNull} /\ Len(clauseParts) # 3
    THEN [clause |-> <<>>, err |-> ParseError(part, "missing value").err, looked |-> TRUE]
    ELSE [clause |-> <<NewClause(clauseParts[1], table[ToLower(clauseParts[2])],
                                 ClauseValue(table[ToLower(clauseParts[2])], clauseParts))>>,
          err |-> <<>>, looked |-> TRUE]

\* the fragments the first package's Sql() joins when no columns are given
SqlPartsV1(clauses) == [i \in 1..Len(clauses) |-> Clause_Sql(clauses[i], <<>>)]

\* the reader when Parse starts on query
Started(toks, query, queryParts) ==
    [toks |-> toks, query |-> query, parts |-> queryParts, clauses |-> <<>>,
     err |-> IF queryParts = <<>> THEN <<[Text |-> "empty query"]>> ELSE <<>>,
     sql |-> <<>>, done |-> queryParts = <<>>, raced |-> FALSE, looked |-> <<>>]

\* the reader after the loop body ran on its next part with result t
Advanced(r, t, racy) ==
    IF t.err # <<>>
    THEN [r EXCEPT !.parts = <<>>, !.clauses = <<>>, !.err = t.err, !.done = TRUE,
                   !.raced = r.raced \/ (t.looked /\ racy),
                   !.looked = IF t.looked THEN registered ELSE r.looked]
    ELSE [r EXCEPT !.parts = Tail(r.parts), !.clauses = r.clauses \o t.clause,
                   !.done = Tail(r.parts) = <<>>,
                   !.sql = IF Tail(r.parts) = <<>>
                           THEN Join(SqlPartsV1(r.clauses \o t.clause), WhereSeparator)
                           ELSE <<>>,
                   !.raced = r.raced \/ racy,
                   !.looked = registered]

\* RegisterOperator(symbol, op): the goroutine starts the assignment
RegisterOperator_Begin(symbol, op) ==
    /\ ~crashed
    /\ Cardinality(writing) < MaxWriters
    /\ [symbol |-> symbol, op |-> op] \notin writing
    /\ writing' = writing \cup {[symbol |-> symbol, op |-> op]}
    /\ crashed' \in MayCrash
    /\ UNCHANGED <<operatorMap, registered, reader>>
    /\ UNCHANGED <<in, as, err, parseOut, whereStmt, sortStmt, clauseIn, clauseOut>>

\* RegisterOperator(symbol, op): the assignment is made and the call returns
RegisterOperator_End(w) ==
    /\ ~crashed
    /\ w \in writing
    /\ operatorMap' = Assigned(operatorMap, w)
    /\ writing' = writing \ {w}
    /\ registered' = <<w>>
    /\ UNCHANGED <<reader, crashed>>
    /\ UNCHANGED <<in, as, err, parseOut, whereStmt, sortStmt, clauseIn, clauseOut>>

\* NewAdvancedSqlSearch(query).Sql() of the first package: Parse splits the query
Sql_V1_Begin(toks, query) ==
    /\ ~crashed
    /\ IF reader = <<>> THEN TRUE ELSE reader[1].done
    /\ reader' = <<Started(toks, query, Fields(query))>>
    /\ UNCHANGED <<operatorMap, writing, registered, crashed>>
    /\ UNCHANGED <<in, as, err, parseOut, whereStmt, sortStmt, clauseIn, clauseOut>>

\* one iteration of the loop of Parse, with its lookup in operatorMap; after the
\* last one Sql() renders the clauses
Sql_V1_Step ==
    /\ ~crashed
    /\ reader # <<>> /\ ~reader[1].done
    /\ \E table \in VisibleTables :
           reader' = <<Advanced(reader[1],
                                ParseTokenV1(Head(reader[1].parts),
                                             SplitN(Head(reader[1].parts), ":", 3), table),
                                writing # {})>>
    /\ crashed' \in (IF Len(SplitN(Head(reader[1].parts), ":", 3)) >= 2
                     THEN MayCrash ELSE {FALSE})
    /\ UNCHANGED <<operatorMap, writing, registered>>
    /\ UNCHANGED <<in, as, err, parseOut, whereStmt, sortStmt, clauseIn, clauseOut>>

RegistryNext ==
    \/ \E symbol \in RegisteredSymbols, op \in RegisteredOperators :
           RegisterOperator_Begin(symbol, op)
    \/ \E w \in writing : RegisterOperator_End(w)
    \/ \E toks \in RegistryQueries : Sql_V1_Begin(toks, QueryText(toks, Str(" ")))
    \/ Sql_V1_Step

RegistrySpec == Init /\ [][RegistryNext]_vars

(***************************************************************************)
(* Vocabulary of the properties                                            *)
(***************************************************************************)
ComparisonOperators ==
    {Equal, NotEqual, GreaterThan, GreaterThanOrEqual, LessThan, LessThanOrEqual}

CountQuotes(s) == Cardinality({i \in 1..Len(s) : s[i] = Quote})

\* lit is v with every single quote written twice and nothing else changed
IsDoublingOf(lit, v) ==
    /\ Len(lit) = Len(v) + CountQuotes(v)
    /\ \A i \in 1..Len(v) :
           LET k == i + Cardinality({j \in 1..(i - 1) : v[j] = Quote})
           IN lit[k] = v[i] /\ (v[i] = Quote => lit[k + 1] = Quote)

\* the clause, the field name and the operator text of the direct Clause.Sql call
CalledClause == clauseIn[1].clause
CalledField == IF clauseIn[1].name # <<>> THEN clauseIn[1].name ELSE CalledClause.Field
CalledHead == CalledField \o Str(" ") \o Operator_String(CalledClause.Operator)

\* digits, at most one decimal point, an optional leading '-', at least one digit
PlainDecimal(v) ==
    LET body == IF v # <<>> /\ v[1] = "-" THEN Tail(v) ELSE v
    IN /\ \A i \in 1..Len(body) : IsDigit(body[i]) \/ body[i] = "."
       /\ Cardinality({i \in 1..Len(body) : body[i] = "."}) <= 1
       /\ \E i \in 1..Len(body) : IsDigit(body[i])

\* the number of digits a plain decimal has before its decimal point
IntegerDigits(v) ==
    LET body == IF v # <<>> /\ v[1] = "-" THEN Tail(v) ELSE v
    IN Cardinality({i \in 1..Len(body) :
                       IsDigit(body[i]) /\ \A j \in 1..i : body[j] # "."})

\* C1: for a comparison operator and a value that is neither an integer nor a
\* float, Clause.Sql returns <field> <op> '<v>' where <v> is the value with every
\* single quote doubled, so the literal holds an even number of quotes.
C1_QuotedLiteralDoublesQuotes ==
    (/\ clauseIn # <<>>
     /\ CalledClause.Operator \in ComparisonOperators
     /\ ~IsNumericValue(CalledClause.Value))
    => LET head == CalledHead \o Str(" '")
           lit == SubSeq(clauseOut, Len(head) + 1, Len(clauseOut) - 1)
       IN /\ Len(clauseOut) >= Len(head) + 1
          /\ HasPrefix(clauseOut, head)
          /\ clauseOut[Len(clauseOut)] = Quote
          /\ IsDoublingOf(lit, CalledClause.Value)
          /\ CountQuotes(lit) % 2 = 0

C1_Witness ==
    /\ clauseIn # <<>>
    /\ CalledClause = NewClause(Str("username"), Equal, Str("admin' OR '1'='1"))
    /\ clauseIn[1].name = <<>>
    /\ clauseOut = Str("username = 'admin'' OR ''1''=''1'")

\* C2: for every operator, Like included, and every value, the fragment
\* Clause.Sql returns is never unterminated: the quotes of the fragment pair up
\* (an odd number of quotes leaves a string literal open).
C2_NeverUnterminated ==
    clauseIn # <<>> => CountQuotes(clauseOut) % 2 = 0

\* C8 (as stated): every plain decimal value is rendered unquoted and unchanged
\* by every comparison operator.
C8_PlainDecimalUnquoted ==
    (/\ clauseIn # <<>>
     /\ CalledClause.Operator \in ComparisonOperators
     /\ PlainDecimal(CalledClause.Value))
    => clauseOut = CalledHead \o Str(" ") \o CalledClause.Value

\* C8 (amended): a plain decimal value whose integer part has at most 308
\* digits is rendered unquoted and unchanged by every comparison operator, and
\* the value 1a is rendered as the quoted string '1a'.
C8_RepresentableDecimalUnquoted ==
    /\ (/\ clauseIn # <<>>
        /\ CalledClause.Operator \in ComparisonOperators
        /\ PlainDecimal(CalledClause.Value)
        /\ IntegerDigits(CalledClause.Value) <= 308)
       => clauseOut = CalledHead \o Str(" ") \o CalledClause.Value
    /\ (/\ clauseIn # <<>>
        /\ CalledClause.Operator \in ComparisonOperators
        /\ CalledClause.Value = Str("1a"))
       => clauseOut = CalledHead \o Str(" '1a'")

C8_Witness ==
    /\ clauseIn # <<>>
    /\ CalledClause.Operator = LessThan
    /\ CalledClause.Value = Digits9(308)
    /\ clauseOut = CalledHead \o Str(" ") \o Digits9(308)

\* C9: the Like operator never applies numeric inference: for every value
\* Clause.Sql renders <field> LIKE '%<value>%'.
C9_LikeAlwaysQuoted ==
    (clauseIn # <<>> /\ CalledClause.Operator = Like)
    => clauseOut = CalledField \o Str(" LIKE '%") \o CalledClause.Value \o Str("%'")

C9_Witness ==
    /\ clauseIn # <<>>
    /\ CalledClause.Operator = Like
    /\ CalledClause.Value = Str("19.99")
    /\ clauseOut = Str("username LIKE '%19.99%'")

(***************************************************************************)
(* Vocabulary of the properties of the compiler                            *)
(***************************************************************************)
\* s with its letters in lower case
Lowered(s) == [i \in 1..Len(s) |-> Lower(s[i])]

\* the SQL text of a built-in operator symbol, <<>> for any other symbol
SqlOfSymbol(symbol) ==
    LET sym == Lowered(symbol)
    IN CASE sym = Str("=") -> Str("=")
         [] sym = Str("!=") -> Str("!=")
         [] sym = Str(">") -> Str(">")
         [] sym = Str(">=") -> Str(">=")
         [] sym = Str("<") -> Str("<")
         [] sym = Str("<=") -> Str("<=")
         [] sym = Str("null") -> Str("IS NULL")
         [] sym = Str("notnull") -> Str("IS NOT NULL")
         [] sym = Str("like") -> Str("LIKE")
         [] OTHER -> <<>>

IsPredicate(t) == t.kind = "pred"
IsSort(t) == t.kind = "sort"
IsNullPredicate(t) ==
    IsPredicate(t) /\ Len(t.parts) >= 2
    /\ Lowered(t.parts[2]) \in {Str("null"), Str("notnull")}

\* a predicate token Parse rejects
Malformed(t) ==
    /\ IsPredicate(t)
    /\ \/ Len(t.parts) < 2
       \/ SqlOfSymbol(t.parts[2]) = <<>>
       \/ ~IsNullPredicate(t) /\ Len(t.parts) < 3

SameIgnoringCase(a, b) ==
    Len(a) = Len(b) /\ \A i \in 1..Len(a) : Lower(a[i]) = Lower(b[i])

\* the columns of the call whose name or alias is the field, case-insensitively
ResolvingColumns(field, columns) ==
    {i \in 1..Len(columns) :
        \/ SameIgnoringCase(columns[i].Name, field)
        \/ \E j \in 1..Len(columns[i].Aliases) :
               SameIgnoringCase(columns[i].Aliases[j], field)}

Resolves(field, columns) == ResolvingColumns(field, columns) # {}

CanonicalName(field, columns) ==
    columns[CHOOSE i \in ResolvingColumns(field, columns) :
                \A j \in ResolvingColumns(field, columns) : i <= j].Name

\* the field of a sort entry: the entry without its __asc or __desc
SortEntryField(entry) ==
    IF HasSuffix(entry, Str("__asc")) THEN SubSeq(entry, 1, Len(entry) - 5)
    ELSE IF HasSuffix(entry, Str("__desc")) THEN SubSeq(entry, 1, Len(entry) - 6)
    ELSE entry

RECURSIVE SortEntries(_)
\* the sort entries of the tokens, in order
SortEntries(toks) ==
    IF toks = <<>> THEN <<>>
    ELSE (IF IsSort(Head(toks)) THEN Head(toks).parts ELSE <<>>) \o SortEntries(Tail(toks))

\* where sep occurs in body
Occurrences(body, sep) ==
    {i \in 1..(Len(body) - Len(sep) + 1) : SubSeq(body, i, i + Len(sep) - 1) = sep}

\* the k-th member of a set of positions
NthOccurrence(occ, k) ==
    CHOOSE p \in occ : Cardinality({q \in occ : q < p}) = k - 1

\* the pieces of body between the occurrences occ of sep
PiecesBetween(body, sep, occ) ==
    [k \in 1..(Cardinality(occ) + 1) |->
        SubSeq(body,
               IF k = 1 THEN 1 ELSE NthOccurrence(occ, k - 1) + Len(sep),
               IF k = Cardinality(occ) + 1 THEN Len(body)
               ELSE NthOccurrence(occ, k) - 1)]

\* the pieces of body between the occurrences of sep; none for an empty body
FragmentsOf(body, sep) ==
    IF body = <<>> THEN <<>> ELSE PiecesBetween(body, sep, Occurrences(body, sep))

\* the tokens, the columns of the constructor call, and what resolves of them
CalledTokens == in[1].toks
CalledColumns == in[1].columns
ResolvingPredicate(t) == IsPredicate(t) /\ Resolves(t.parts[1], CalledColumns)
ResolvingEntry(e) == Resolves(SortEntryField(e), CalledColumns)
KeptPredicates == SelectSeq(CalledTokens, ResolvingPredicate)
KeptEntries == SelectSeq(SortEntries(CalledTokens), ResolvingEntry)
WhereBodyFragments == FragmentsOf(whereStmt[1], Str(" AND "))
SortBodyFragments == FragmentsOf(sortStmt[1], Str(", "))

\* C3: with columns supplied, a query whose tokens are all well formed is
\* accepted whatever its fields are; the WHERE body has one fragment per
\* predicate whose field resolves to a column and the ORDER BY body one entry per
\* sort entry whose field resolves, so that a body is empty when nothing resolves.
C3_UnknownFieldsDropped ==
    (in # <<>> /\ parseOut = <<>> /\ CalledColumns # <<>>
     /\ \A i \in 1..Len(CalledTokens) : ~Malformed(CalledTokens[i]))
    => /\ err = <<>> /\ as # <<>>
       /\ whereStmt # <<>> =>
              /\ Len(WhereBodyFragments) = Len(KeptPredicates)
              /\ (KeptPredicates = <<>> => whereStmt[1] = <<>>)
       /\ sortStmt # <<>> =>
              /\ Len(SortBodyFragments) = Len(KeptEntries)
              /\ (KeptEntries = <<>> => sortStmt[1] = <<>>)

C3_Witness ==
    /\ in # <<>> /\ as # <<>> /\ err = <<>>
    /\ CalledColumns = <<Field1Column>>
    /\ CalledTokens = <<Pred(<<Str("field3"), Str("="), Str("value1")>>),
                        SortTok(<<Str("field3")>>)>>
    /\ whereStmt = << <<>> >>
    /\ sortStmt = << <<>> >>

\* C4: with zero columns no allow-list filtering is applied: whenever the query
\* holds a predicate, the WHERE body of an instance built without columns
\* renders it and so is not empty.
C4_NoColumnsNoFiltering ==
    (as # <<>> /\ whereStmt # <<>> /\ CalledColumns = <<>>
     /\ \E i \in 1..Len(CalledTokens) : IsPredicate(CalledTokens[i]))
    => /\ whereStmt[1] # <<>>
       /\ Len(WhereBodyFragments) = Len(SelectSeq(CalledTokens, IsPredicate))

\* the first malformed token of the call
FirstMalformed ==
    CalledTokens[CHOOSE i \in 1..Len(CalledTokens) :
                     /\ Malformed(CalledTokens[i])
                     /\ \A j \in 1..(i - 1) : ~Malformed(CalledTokens[j])]

\* C5: parsing is all-or-nothing: when a predicate token of the query is
\* malformed, Parse returns a ParseError whose Part is the text of the first such
\* token together with nil clause and sort lists, and NewAdvancedSqlSearch
\* returns that error and no instance, whatever the tokens before it are.
C5_AllOrNothing ==
    (in # <<>> /\ \E i \in 1..Len(CalledTokens) : Malformed(CalledTokens[i]))
    => /\ parseOut # <<>> =>
              /\ parseOut[1].err # <<>>
              /\ parseOut[1].err[1].Part = TokenText(FirstMalformed)
              /\ parseOut[1].isNil
              /\ parseOut[1].clauses = <<>>
              /\ parseOut[1].sortClauses = <<>>
       /\ parseOut = <<>> =>
              /\ err # <<>>
              /\ err[1].Part = TokenText(FirstMalformed)
              /\ as = <<>>

C5_Witness ==
    /\ in # <<>> /\ parseOut = <<>>
    /\ Len(CalledTokens) = 2
    /\ ~Malformed(CalledTokens[1]) /\ IsPredicate(CalledTokens[1])
    /\ Malformed(CalledTokens[2])
    /\ err # <<>> /\ err[1].Part = Str("field2:=")
    /\ as = <<>>

\* the text a fragment of the WHERE body starts with for a resolving predicate
ExpectedHead(t) ==
    CanonicalName(t.parts[1], CalledColumns) \o Str(" ") \o SqlOfSymbol(t.parts[2])

\* the entry of the ORDER BY body for a resolving sort entry
ExpectedEntry(e) ==
    CanonicalName(SortEntryField(e), CalledColumns)
    \o (IF HasSuffix(e, Str("__desc")) THEN Str(" DESC") ELSE Str(" ASC"))

ResolvingClause(c) == Resolves(c.Field, CalledColumns)
KeptClauses == SelectSeq(as[1].whereClauses, ResolvingClause)
KeptFragment(i) ==
    Clause_Sql(KeptClauses[i], CanonicalName(KeptClauses[i].Field, CalledColumns))

RECURSIVE AndJoined(_)
\* the first n fragments of the resolved clauses with " AND " between them
AndJoined(n) ==
    IF n = 0 THEN <<>>
    ELSE IF n = 1 THEN KeptFragment(1)
    ELSE AndJoined(n - 1) \o Str(" AND ") \o KeptFragment(n)

Contains(body, piece) == Occurrences(body, piece) # {}

\* C7: the WHERE body is the fragments of the resolved clauses in the order of
\* their tokens, joined by " AND " and nothing else: one fragment per resolving
\* predicate token, n-1 separators for n >= 1 fragments, no leading WHERE, no OR
\* and no parentheses.
C7_AndJoinedInTokenOrder ==
    (as # <<>> /\ whereStmt # <<>>)
    => /\ Len(KeptClauses) = Len(KeptPredicates)
       /\ \A i \in 1..Len(KeptClauses) :
              SameIgnoringCase(KeptClauses[i].Field, KeptPredicates[i].parts[1])
       /\ whereStmt[1] = AndJoined(Len(KeptClauses))
       /\ Len(KeptClauses) >= 1 =>
              Cardinality(Occurrences(whereStmt[1], Str(" AND "))) = Len(KeptClauses) - 1
       /\ ~HasPrefix(whereStmt[1], Str("WHERE"))
       /\ ~Contains(whereStmt[1], Str(" OR "))
       /\ ~Contains(whereStmt[1], Str("(")) /\ ~Contains(whereStmt[1], Str(")"))

C7_Witness ==
    /\ as # <<>> /\ whereStmt # <<>>
    /\ CalledColumns = <<Field1Column, Field2Column>>
    /\ CalledTokens = <<Pred(<<Str("field2"), Str(">"), Str("10")>>),
                        Pred(<<Str("field1"), Str("="), Str("value1")>>)>>
    /\ whereStmt[1] = Str("field2 > 10 AND field1 = 'value1'")

\* C10: null and notnull ignore the value: a null or notnull token, with or
\* without a trailing segment, parses to a clause with an empty value; Clause.Sql
\* renders such a clause as exactly <field> IS NULL, respectively
\* <field> IS NOT NULL, and so does the WHERE body for a resolving token.
C10_NullIgnoresValue ==
    /\ (parseOut # <<>> /\ parseOut[1].err = <<>>) =>
           LET preds == SelectSeq(CalledTokens, IsPredicate)
           IN /\ Len(parseOut[1].clauses) = Len(preds)
              /\ \A i \in 1..Len(preds) :
                     IsNullPredicate(preds[i]) =>
                         /\ parseOut[1].clauses[i].Field = preds[i].parts[1]
                         /\ parseOut[1].clauses[i].Operator \in {Null, NotNull}
                         /\ parseOut[1].clauses[i].Value = <<>>
    /\ (clauseIn # <<>> /\ CalledClause.Operator = Null) =>
           clauseOut = CalledField \o Str(" IS NULL")
    /\ (clauseIn # <<>> /\ CalledClause.Operator = NotNull) =>
           clauseOut = CalledField \o Str(" IS NOT NULL")
    /\ (as # <<>> /\ whereStmt # <<>> /\ CalledColumns # <<>>) =>
           /\ Len(WhereBodyFragments) = Len(KeptPredicates)
           /\ \A i \in 1..Len(KeptPredicates) :
                  IsNullPredicate(KeptPredicates[i]) =>
                      WhereBodyFragments[i] = ExpectedHead(KeptPredicates[i])

C10_Witness ==
    /\ as # <<>> /\ whereStmt # <<>>
    /\ CalledColumns = <<Field1Column, Field2Column>>
    /\ CalledTokens = <<Pred(<<Str("field1"), Str("null"), Str("anything")>>),
                        Pred(<<Str("Field2"), Str("NotNull"), Str("'x'")>>)>>
    /\ whereStmt[1] = Str("field1 IS NULL AND field2 IS NOT NULL")

(***************************************************************************)
(* Properties of the parser on the examples                                *)
(***************************************************************************)
\* the sort clause an entry stands for: its one trailing suffix names the direction
EntryClause(e) ==
    [Field |-> SortEntryField(e),
     Direction |-> IF ~HasSuffix(e, Str("__asc")) /\ HasSuffix(e, Str("__desc"))
                   THEN Desc ELSE Asc]

ParsedWithoutError == parseOut # <<>> /\ parseOut[1].err = <<>>

\* C11: each entry of a sort token yields one SortClause, in comma order: an
\* entry ending in __desc gives (entry without that suffix, Desc), one ending in
\* __asc gives (entry without that suffix, Asc), any other entry (entry, Asc);
\* only the one trailing suffix is removed.
C11_SortEntriesInCommaOrder ==
    /\ (ParsedWithoutError /\ Len(SelectSeq(CalledTokens, IsSort)) = 1) =>
           LET entries == SortEntries(CalledTokens)
           IN /\ Len(parseOut[1].sortClauses) = Len(entries)
              /\ \A i \in 1..Len(entries) :
                     parseOut[1].sortClauses[i] = EntryClause(entries[i])
    /\ (parseOut # <<>> /\ CalledTokens = <<SortTok(<<Str("field__1__desc")>>)>>) =>
           parseOut[1].sortClauses = <<[Field |-> Str("field__1"), Direction |-> Desc]>>
    /\ (parseOut # <<>> /\ CalledTokens = <<SortTok(<<Str("field__2")>>)>>) =>
           parseOut[1].sortClauses = <<[Field |-> Str("field__2"), Direction |-> Asc]>>

C11_Witness ==
    /\ parseOut # <<>>
    /\ in[1].query = Str("sort:field1__desc,field2__asc,field3")
    /\ parseOut[1].sortClauses = <<[Field |-> Str("field1"), Direction |-> Desc],
                                   [Field |-> Str("field2"), Direction |-> Asc],
                                   [Field |-> Str("field3"), Direction |-> Asc]>>

RECURSIVE CommaJoined(_)
\* the first n resolved sort entries, rendered, with ", " between them
CommaJoined(n) ==
    IF n = 0 THEN <<>>
    ELSE IF n = 1 THEN ExpectedEntry(KeptEntries[1])
    ELSE CommaJoined(n - 1) \o Str(", ") \o ExpectedEntry(KeptEntries[n])

\* C12: the ORDER BY body is the resolved sort entries in their comma order,
\* each rendered as the canonical name and ASC or DESC, joined by ", ", with no
\* leading ORDER BY and no trace of an unresolved entry; columns {field1} and
\* sort:field1,field2 give field1 ASC.
C12_OrderByBody ==
    (as # <<>> /\ sortStmt # <<>> /\ CalledColumns # <<>>)
    => /\ sortStmt[1] = CommaJoined(Len(KeptEntries))
       /\ ~HasPrefix(sortStmt[1], Str("ORDER BY"))
       /\ (/\ CalledColumns = <<Field1Column>>
           /\ CalledTokens = <<Pred(<<Str("field1"), Str("="), Str("value1")>>),
                               SortTok(<<Str("field1"), Str("field2")>>)>>)
          => sortStmt[1] = Str("field1 ASC")

C12_Witness ==
    /\ as # <<>> /\ sortStmt # <<>>
    /\ CalledColumns = <<Field1Column, Field2Column>>
    /\ in[1].query = Str("sort:field2__desc,F1__asc,field3,f2 field1:=:value1")
    /\ sortStmt[1] = Str("field2 DESC, field1 ASC, field2 ASC")

\* a query without any token: empty, or white space only
Blank(query) == \A i \in 1..Len(query) : query[i] \in {" ", "\t", "\n", "\r"}

\* C13: an empty query, and a query of white space only, is not an error: Parse
\* returns no clauses and no sort clauses, and the compiler returns an empty
\* WHERE body and an empty ORDER BY body whatever the columns are.
C13_EmptyQueryIsNoError ==
    (in # <<>> /\ Blank(in[1].query))
    => /\ parseOut # <<>> =>
              /\ parseOut[1].err = <<>>
              /\ parseOut[1].clauses = <<>>
              /\ parseOut[1].sortClauses = <<>>
       /\ parseOut = <<>> =>
              /\ err = <<>> /\ as # <<>>
              /\ whereStmt # <<>> => whereStmt[1] = <<>>
              /\ sortStmt # <<>> => sortStmt[1] = <<>>

C13_Witness ==
    /\ in # <<>> /\ in[1].query = <<"\t", "\n", "\t", "\n">>
    /\ CalledColumns = DocColumns
    /\ err = <<>> /\ as # <<>>
    /\ whereStmt = << <<>> >> /\ sortStmt = << <<>> >>

(***************************************************************************)
(* Properties of the operator table under registration                     *)
(***************************************************************************)
\* the compilation of the reader returned, and its lookups raced with no assignment
ReadUndisturbed == reader # <<>> /\ reader[1].done /\ ~reader[1].raced

\* C14: after RegisterOperator(symbol, op) returned, for a symbol in any letter
\* case, a later Parse of a token field:<symbol>:value resolves the operator to
\* op instead of failing with "unsupported operator".
C14_RegistrationObserved ==
    (/\ ReadUndisturbed
     /\ reader[1].looked # <<>>
     /\ Len(reader[1].toks) = 1
     /\ Len(reader[1].toks[1].parts) = 3
     /\ reader[1].toks[1].parts[2] = reader[1].looked[1].symbol)
    => /\ reader[1].err = <<>>
       /\ Len(reader[1].clauses) = 1
       /\ reader[1].clauses[1].Operator = reader[1].looked[1].op

\* C15: concurrent use of the operator table is safe: in every interleaving of
\* RegisterOperator calls and the lookups of running Parse calls, no lookup is
\* made while an assignment to the table is executing.
C15_NoLookupDuringAssignment ==
    reader # <<>> => ~reader[1].raced

\* C17: after any registrations and parses, every clause Parse returns carries
\* one of the nine operators =, !=, >, >=, <, <=, IS NULL, IS NOT NULL, LIKE and
\* no compiled output holds the placeholder text unknown.
C17_OnlyTheNineOperators ==
    ReadUndisturbed
    => /\ \A i \in 1..Len(reader[1].clauses) :
              reader[1].clauses[i].Operator \in ComparisonOperators \cup {Null, NotNull, Like}
       /\ ~Contains(reader[1].sql, Str("unknown"))

(***************************************************************************)
(* Properties of the operator lookup on the examples                       *)
(***************************************************************************)
\* the call parsed one predicate token of three parts, free of white space
OneSymbolToken ==
    /\ parseOut # <<>>
    /\ Len(CalledTokens) = 1
    /\ IsPredicate(CalledTokens[1])
    /\ Len(CalledTokens[1].parts) = 3
    /\ in[1].query = TokenText(CalledTokens[1])
    /\ \A i \in 1..Len(in[1].query) : ~IsSpace(in[1].query[i])

\* C16: operator symbols are matched case-insensitively: every letter-case
\* variant of a built-in symbol resolves to the operator of the lower-case
\* symbol, and a symbol that is not in the table yields a ParseError with the
\* cause "unsupported operator".
C16_SymbolsMatchedIgnoringCase ==
    OneSymbolToken
    => IF SqlOfSymbol(CalledTokens[1].parts[2]) # <<>>
       THEN /\ parseOut[1].err = <<>>
            /\ Len(parseOut[1].clauses) = 1
            /\ Operator_String(parseOut[1].clauses[1].Operator)
                   = SqlOfSymbol(CalledTokens[1].parts[2])
       ELSE /\ parseOut[1].err # <<>>
            /\ parseOut[1].err[1].Cause = "unsupported operator"
            /\ parseOut[1].err[1].Part = in[1].query

C16_Witness ==
    /\ OneSymbolToken
    /\ CalledTokens[1].parts[2] = Str("NoTnUlL")
    /\ parseOut[1].err = <<>>
    /\ parseOut[1].clauses = <<NewClause(Str("field1"), NotNull, Str(""))>>

\* the sort clauses the entries of one sort token stand for
TokenSortClauses(t) == [i \in 1..Len(t.parts) |-> EntryClause(t.parts[i])]

\* C18: a query carries at most one sort token, at any position: the sort list
\* Parse returns is empty or the list of the entries of one single sort token of
\* the query, never the entries of two sort tokens one after the other.
C18_SortListOfOneToken ==
    ParsedWithoutError
    => \/ parseOut[1].sortClauses = <<>>
       \/ \E i \in 1..Len(CalledTokens) :
              /\ IsSort(CalledTokens[i])
              /\ parseOut[1].sortClauses = TokenSortClauses(CalledTokens[i])

\* C19: a predicate value that contains white space stays one value: with a
\* column description the query description:like:20% off! compiles to the one
\* fragment description LIKE '%20% off!%', and name:=:'John Doe' parses to one
\* clause whose value is John Doe.
C19_ValueWithWhiteSpaceIsOneValue ==
    /\ (/\ in # <<>> /\ parseOut = <<>>
        /\ CalledTokens = <<Pred(<<Str("description"), Str("like"), Str("20% off!")>>)>>
        /\ CalledColumns = <<DescriptionColumn>>)
       => /\ err = <<>> /\ as # <<>>
          /\ whereStmt # <<>> => whereStmt[1] = Str("description LIKE '%20% off!%'")
    /\ (/\ parseOut # <<>>
        /\ CalledTokens = <<Pred(<<Str("name"), Str("="), Str("'John Doe'")>>)>>)
       => /\ parseOut[1].err = <<>>
          /\ parseOut[1].clauses = <<NewClause(Str("name"), Equal, Str("John Doe"))>>

\* C20: a boolean word compared against a BoolType column is rendered unquoted:
\* with the documented columns the documented query compiles to the WHERE body
\* user_name = 'John' AND user_email LIKE '%@gmail.com%' AND age > 25 AND
\* active = true and to the ORDER BY body created_at DESC.
C20_DocumentedExample ==
    (as # <<>> /\ CalledTokens = DocQuery /\ CalledColumns = DocColumns)
    => /\ whereStmt # <<>> =>
              whereStmt[1] = Str("user_name = 'John' AND user_email LIKE '%@gmail.com%'")
                             \o Str(" AND age > 25 AND active = true")
       /\ sortStmt # <<>> => sortStmt[1] = Str("created_at DESC")

(***************************************************************************)
(* The declared type of a column                                           *)
(***************************************************************************)
\* columns with the types replaced, position by position
Retyped(columns, types) ==
    [i \in 1..Len(columns) |-> [columns[i] EXCEPT !.Type = types[i]]]

\* the column sets that differ from columns in declared types only: every
\* column of one type, or one column of another type
Retypings(columns) ==
    {Retyped(columns, [i \in 1..Len(columns) |-> t]) : t \in ColumnTypes}
    \cup
    {Retyped(columns, [i \in 1..Len(columns) |->
                          IF i = k THEN t ELSE columns[i].Type]) :
        k \in 1..Len(columns), t \in ColumnTypes}

\* values that are no number and no date
OpaqueValues == {Str("abc"), Str("2024-13-45"), Str("12:30")}

\* the constructor was called with one comparison of a typed column to such a value
OpaqueComparison ==
    /\ in # <<>> /\ parseOut = <<>>
    /\ Len(CalledTokens) = 1
    /\ IsPredicate(CalledTokens[1])
    /\ Len(CalledTokens[1].parts) = 3
    /\ Lowered(CalledTokens[1].parts[2]) \in {Str("="), Str("!="), Str(">"), Str(">="),
                                               Str("<"), Str("<=")}
    /\ CalledTokens[1].parts[3] \in OpaqueValues
    /\ Resolves(CalledTokens[1].parts[1], CalledColumns)

\* C21: the declared type of a column never influences compilation: with the
\* types of the supplied columns replaced by any others, the constructor returns
\* the same error outcome and the instance gives the same WHERE body and the same
\* ORDER BY body; a value that is no number against an IntType column, or no date
\* against a date column, is no error and is rendered as a quoted string.
C21_TypeNeverInfluences ==
    (in # <<>> /\ parseOut = <<>>)
    => /\ \A columns \in Retypings(CalledColumns) :
              LET r == NewAdvancedSqlSearch(in[1].query, columns)
              IN /\ r.err = err
                 /\ (r.as = <<>>) = (as = <<>>)
                 /\ whereStmt # <<>> => whereStmt[1] = WhereStatement(r.as[1])
                 /\ sortStmt # <<>> => sortStmt[1] = SortStatement(r.as[1])
       /\ OpaqueComparison =>
              /\ err = <<>> /\ as # <<>>
              /\ whereStmt # <<>> =>
                     whereStmt[1] = ExpectedHead(CalledTokens[1]) \o Str(" '")
                                    \o CalledTokens[1].parts[3] \o Str("'")

C21_Witness ==
    /\ OpaqueComparison
    /\ whereStmt # <<>>
    /\ \/ /\ CalledColumns = <<Field1Column, Field2Column>>
          /\ CalledTokens = <<Pred(<<Str("field2"), Str("="), Str("abc")>>)>>
          /\ Field2Column.Type = IntType
          /\ whereStmt[1] = Str("field2 = 'abc'")
       \/ /\ CalledColumns = DocColumns
          /\ CalledTokens = <<Pred(<<Str("created"), Str(">"), Str("2024-13-45")>>)>>
          /\ whereStmt[1] = Str("created_at > '2024-13-45'")

(***************************************************************************)
(* The cause of a ParseError                                               *)
(***************************************************************************)
\* the rule a malformed predicate token breaks, the rules taken in their order
BrokenRule(t) ==
    IF Len(t.parts) < 2 THEN "invalid query format"
    ELSE IF SqlOfSymbol(t.parts[2]) = <<>> THEN "unsupported operator"
    ELSE "missing value"

\* the error a call returned, <<>> when it returned none
ReturnedError == IF parseOut # <<>> THEN parseOut[1].err ELSE err

\* the call was given this one token
CalledWith(t) == in # <<>> /\ CalledTokens = <<t>>

\* C22: the cause of a ParseError names the rule the first malformed token
\* broke, the rules tested in a fixed order: fewer than 2 colon-separated parts
\* is "invalid query format", otherwise an operator part that is not in the table
\* is "unsupported operator", otherwise a missing third part is "missing value";
\* so field1 fails with invalid query format, field1:=value1 and field1:value1
\* with unsupported operator, and field1:= with missing value.
C22_CauseNamesTheBrokenRule ==
    (in # <<>> /\ \E i \in 1..Len(CalledTokens) : Malformed(CalledTokens[i]))
    => /\ ReturnedError # <<>>
       /\ ReturnedError[1].Part = TokenText(FirstMalformed)
       /\ ReturnedError[1].Cause = BrokenRule(FirstMalformed)
       /\ CalledWith(Pred(<<Str("field1")>>))
              => ReturnedError[1].Cause = "invalid query format"
       /\ (CalledWith(Pred(<<Str("field1"), Str("=value1")>>))
           \/ CalledWith(Pred(<<Str("field1"), Str("value1")>>)))
              => ReturnedError[1].Cause = "unsupported operator"
       /\ CalledWith(Pred(<<Str("field1"), Str("=")>>))
              => ReturnedError[1].Cause = "missing value"

C22_Witness ==
    /\ in # <<>> /\ parseOut # <<>>
    /\ CalledTokens = <<Pred(<<Str("field1"), Str("bogus")>>), Pred(<<Str("field1")>>)>>
    /\ parseOut[1].err # <<>>
    /\ parseOut[1].err[1].Part = Str("field1:bogus")
    /\ parseOut[1].err[1].Cause = "unsupported operator"

(***************************************************************************)
(* The three parts of a predicate token                                    *)
(***************************************************************************)
\* where the colons of a text are, and the k-th of them
Colons(text) == {i \in 1..Len(text) : text[i] = ":"}
Colon(text, k) == NthOccurrence(Colons(text), k)

\* the text before the first colon, between the first two, after the second
BeforeFirstColon(text) == SubSeq(text, 1, Colon(text, 1) - 1)
BetweenColons(text) == SubSeq(text, Colon(text, 1) + 1, Colon(text, 2) - 1)
AfterSecondColon(text) == SubSeq(text, Colon(text, 2) + 1, Len(text))

WrapperQuoted(v) == Len(v) >= 2 /\ v[1] = Quote /\ v[Len(v)] = Quote

\* the predicate tokens of the call, in order
CalledPredicates == SelectSeq(CalledTokens, IsPredicate)

\* a token is a run of characters that are no white space
Spaceless(t) == \A k \in 1..Len(TokenText(t)) : ~IsSpace(TokenText(t)[k])

\* Parse was called and no token of the query is malformed
ParsedGrammatical ==
    /\ in # <<>> /\ parseOut # <<>>
    /\ \A i \in 1..Len(CalledTokens) :
           Spaceless(CalledTokens[i]) /\ ~Malformed(CalledTokens[i])

\* C23: a predicate token is split on ":" into at most 3 parts: the field of
\* its clause is the text before the first colon, the operator is the one of
\* the symbol between the first and the second colon, and everything after the
\* second colon, further colons included, is the value, unchanged when it is not
\* wrapped in quotes: t:=:12:30 gives field t, operator Equal, value 12:30.
C23_AtMostThreeParts ==
    ParsedGrammatical
    => /\ parseOut[1].err = <<>>
       /\ Len(parseOut[1].clauses) = Len(CalledPredicates)
       /\ \A i \in 1..Len(CalledPredicates) :
              LET text == TokenText(CalledPredicates[i])
                  clause == parseOut[1].clauses[i]
              IN /\ clause.Field = BeforeFirstColon(text)
                 /\ Cardinality(Colons(text)) >= 2 =>
                        /\ clause.Operator = DefaultOperatorMap[Lowered(BetweenColons(text))]
                        /\ (clause.Operator \notin {Null, NotNull}
                            /\ ~WrapperQuoted(AfterSecondColon(text)))
                               => clause.Value = AfterSecondColon(text)
       /\ CalledWith(Pred(<<Str("t"), Str("="), Str("12:30")>>))
              => parseOut[1].clauses = <<NewClause(Str("t"), Equal, Str("12:30"))>>

C23_Witness ==
    /\ ParsedGrammatical
    /\ CalledWith(Pred(<<Str("t"), Str("="), Str("12:30")>>))
    /\ Cardinality(Colons(in[1].query)) = 3
    /\ parseOut[1].clauses = <<NewClause(Str("t"), Equal, Str("12:30"))>>

(***************************************************************************)
(* Wrapper quotes                                                          *)
(***************************************************************************)
\* the clauses a successful call built: those Parse returned, or those of the instance
BuiltClauses ==
    IF parseOut # <<>> THEN parseOut[1].clauses
    ELSE IF as # <<>> THEN as[1].whereClauses
    ELSE <<>>

\* some call returned without an error for a query of well-formed tokens
BuiltGrammatical ==
    /\ in # <<>>
    /\ \A i \in 1..Len(CalledTokens) :
           Spaceless(CalledTokens[i]) /\ ~Malformed(CalledTokens[i])
    /\ ReturnedError = <<>>

\* the value segment of a predicate token that has one
ValueSegment(t) == AfterSecondColon(TokenText(t))

TakesValue(t) ==
    /\ Cardinality(Colons(TokenText(t))) >= 2
    /\ Lowered(BetweenColons(TokenText(t))) \notin {Str("null"), Str("notnull")}

\* C24: wrapper-quote stripping removes exactly one leading and one trailing
\* single quote, only from a value of length at least 2 whose first and last
\* character are both a quote; what is between them is kept verbatim, a lone
\* quote or a value quoted on one side only is kept unchanged, and stripping
\* comes before rendering: field2:=:'25' and field2:=:25 give the same clause
\* and the same unquoted output field2 = 25.
C24_WrapperQuotesStrippedOnce ==
    BuiltGrammatical
    => /\ Len(BuiltClauses) = Len(CalledPredicates)
       /\ \A i \in 1..Len(CalledPredicates) :
              TakesValue(CalledPredicates[i])
              => LET segment == ValueSegment(CalledPredicates[i])
                     value == BuiltClauses[i].Value
                 IN IF WrapperQuoted(segment)
                    THEN /\ Len(value) = Len(segment) - 2
                         /\ \A k \in 1..Len(value) : value[k] = segment[k + 1]
                    ELSE value = segment
       /\ (\E v \in {Str("'25'"), Str("25")} :
               CalledWith(Pred(<<Str("field2"), Str("="), v>>)))
          => /\ BuiltClauses = <<NewClause(Str("field2"), Equal, Str("25"))>>
             /\ (whereStmt # <<>> /\ Resolves(Str("field2"), CalledColumns))
                    => whereStmt[1] = CanonicalName(Str("field2"), CalledColumns)
                                      \o Str(" = 25")

C24_Witness ==
    /\ BuiltGrammatical
    /\ CalledWith(Pred(<<Str("field2"), Str("="), Str("'25'")>>))
    /\ CalledColumns = <<Field1Column, Field2Column>>
    /\ as # <<>> /\ as[1].whereClauses = <<NewClause(Str("field2"), Equal, Str("25"))>>
    /\ whereStmt = <<Str("field2 = 25")>>

(***************************************************************************)
(* Parsing and the column set                                              *)
(***************************************************************************)
\* the constructor was called
Constructing == in # <<>> /\ parseOut = <<>>

\* what the constructor kept of a parse: the error, and the lists of the instance
ParseResult(r) ==
    [err |-> r.err,
     lists |-> IF r.as = <<>> THEN <<>>
               ELSE <<r.as[1].whereClauses, r.as[1].sortClauses>>]

\* C25: parsing is independent of any schema: the constructor returns the
\* error Parse returns for the query alone and keeps the clause and sort lists
\* Parse built, the same under every column set, and a field that is no column
\* never turns a query of well-formed tokens into a ParseError.
C25_ParsingIgnoresColumns ==
    Constructing
    => /\ err = Parse(in[1].query).err
       /\ as # <<>> =>
              /\ as[1].whereClauses = Parse(in[1].query).clauses
              /\ as[1].sortClauses = Parse(in[1].query).sortClauses
       /\ \A columns \in ExampleColumnSets :
              ParseResult(NewAdvancedSqlSearch(in[1].query, columns))
                  = ParseResult([as |-> as, err |-> err])
       /\ (\A i \in 1..Len(CalledTokens) :
               Spaceless(CalledTokens[i]) /\ ~Malformed(CalledTokens[i]))
          => err = <<>> /\ as # <<>>

C25_Witness ==
    /\ Constructing
    /\ CalledColumns = <<Field1Column>>
    /\ CalledTokens = <<Pred(<<Str("field3"), Str("="), Str("value1")>>),
                        SortTok(<<Str("field3")>>)>>
    /\ ~Resolves(Str("field3"), CalledColumns)
    /\ err = <<>>
    /\ as # <<>>
    /\ as[1].whereClauses = <<NewClause(Str("field3"), Equal, Str("value1"))>>
    /\ as[1].sortClauses = <<[Field |-> Str("field3"), Direction |-> Asc]>>

(***************************************************************************)
(* The fields of the output                                                *)
(***************************************************************************)
\* the text a fragment starts with, up to its first space
FieldText(fragment) == SubSeq(fragment, 1, IndexByte(fragment, " ") - 1)

\* the canonical names of the columns of the call
CalledNames == {CalledColumns[i].Name : i \in 1..Len(CalledColumns)}

\* C26: when a column set is supplied, every field name of the WHERE body and
\* of the ORDER BY body is the canonical Name of a supplied column, columns
\* with an empty Name and aliases included: no field text of the query reaches
\* the output.
C26_OnlyColumnNamesInOutput ==
    (as # <<>> /\ CalledColumns # <<>>)
    => /\ whereStmt # <<>> =>
              \A i \in 1..Len(WhereBodyFragments) :
                  FieldText(WhereBodyFragments[i]) \in CalledNames
       /\ sortStmt # <<>> =>
              \A i \in 1..Len(SortBodyFragments) :
                  FieldText(SortBodyFragments[i]) \in CalledNames

(***************************************************************************)
(* What is rendered unquoted                                               *)
(***************************************************************************)
\* an optional leading sign, then decimal digits and at most one decimal point
SignedDecimalText(v) ==
    LET body == IF v # <<>> /\ v[1] \in {"-", "+"} THEN Tail(v) ELSE v
    IN /\ \A i \in 1..Len(body) : IsDigit(body[i]) \/ body[i] = "."
       /\ Cardinality({i \in 1..Len(body) : body[i] = "."}) <= 1

\* Clause.Sql was called and rendered the value bare after the operator
RenderedUnquoted ==
    /\ clauseIn # <<>>
    /\ CalledClause.Operator \in ComparisonOperators
    /\ clauseOut = CalledHead \o Str(" ") \o CalledClause.Value

\* C27: every value Clause.Sql renders unquoted is a plain decimal numeral,
\* an optional leading sign, decimal digits and at most one decimal point,
\* without a quote, a letter or white space; NaN, Inf, infinity, 1e5 and 0x1p4
\* are rendered as quoted strings.
C27_UnquotedIsPlainDecimal ==
    /\ RenderedUnquoted => SignedDecimalText(CalledClause.Value)
    /\ (/\ clauseIn # <<>>
        /\ CalledClause.Operator \in ComparisonOperators
        /\ CalledClause.Value \in {Str("NaN"), Str("-Inf"), Str("1e5"), Str("0x1p4")})
       => clauseOut = CalledHead \o Str(" '") \o CalledClause.Value \o Str("'")

(***************************************************************************)
(* Registration and the built-in symbols                                   *)
(***************************************************************************)
\* C28: registration only extends the operator table: after any sequence of
\* RegisterOperator calls every built-in symbol still resolves to its built-in
\* operator, no entry is removed, and the query field1:like:value1, which parses
\* before any registration, still parses to the same clause.
C28_RegistrationOnlyExtends ==
    /\ \A symbol \in DOMAIN DefaultOperatorMap :
           /\ symbol \in DOMAIN operatorMap
           /\ operatorMap[symbol] = DefaultOperatorMap[symbol]
    /\ (/\ ReadUndisturbed
        /\ reader[1].toks = <<Pred(<<Str("field1"), Str("like"), Str("value1")>>)>>)
       => /\ reader[1].err = <<>>
          /\ reader[1].clauses = <<NewClause(Str("field1"), Like, Str("value1"))>>

(***************************************************************************)
(* Tokens that start with sort:                                            *)
(***************************************************************************)
StartsWithSort(text) == Len(text) >= 5 /\ SubSeq(text, 1, 5) = Str("sort:")

\* what follows sort: in a text, and its pieces between commas
SortRemainder(text) == SubSeq(text, 6, Len(text))
RemainderEntries(text) ==
    PiecesBetween(SortRemainder(text), Str(","), Occurrences(SortRemainder(text), Str(",")))

RECURSIVE SortClausesOfTexts(_)
\* the sort clauses of the tokens that start with sort:, in order
SortClausesOfTexts(toks) ==
    IF toks = <<>> THEN <<>>
    ELSE (IF StartsWithSort(TokenText(Head(toks)))
          THEN [i \in 1..Len(RemainderEntries(TokenText(Head(toks)))) |->
                   EntryClause(RemainderEntries(TokenText(Head(toks)))[i])]
          ELSE <<>>)
         \o SortClausesOfTexts(Tail(toks))

\* the tokens of the call that do not start with sort:
OtherTokens == {i \in 1..Len(CalledTokens) : ~StartsWithSort(TokenText(CalledTokens[i]))}

\* C29: a token that starts with sort: is a sort token, never a predicate, and
\* never causes a ParseError: no error names such a token, and when the other
\* tokens are well-formed the parse succeeds with one clause per other token
\* and, for every sort token, one sort clause per piece between the commas of
\* what follows sort:, an empty remainder, empty pieces and further colons
\* (sort:=:x) included.
C29_SortTokensNeverFail ==
    (in # <<>> /\ parseOut # <<>>
     /\ \A i \in 1..Len(CalledTokens) : Spaceless(CalledTokens[i]))
    => /\ parseOut[1].err # <<>> => ~StartsWithSort(parseOut[1].err[1].Part)
       /\ (\A i \in OtherTokens : ~Malformed(CalledTokens[i]))
          => /\ parseOut[1].err = <<>>
             /\ Len(parseOut[1].clauses) = Cardinality(OtherTokens)
             /\ parseOut[1].sortClauses = SortClausesOfTexts(CalledTokens)

C29_Witness ==
    /\ in # <<>> /\ parseOut # <<>>
    /\ \/ /\ in[1].query = Str("sort:=:x")
          /\ parseOut[1].sortClauses = <<[Field |-> Str("=:x"), Direction |-> Asc]>>
       \/ /\ in[1].query = Str("sort:a,,b")
          /\ Len(parseOut[1].sortClauses) = 3
          /\ parseOut[1].sortClauses[2] = [Field |-> Str(""), Direction |-> Asc]
    /\ parseOut[1].err = <<>>
    /\ parseOut[1].clauses = <<>>

(***************************************************************************)
(* Columns whose names and aliases collide                                 *)
(***************************************************************************)
\* the first column, in the supplied order, that a resolving field matches
FirstMatching(field) ==
    CalledColumns[CHOOSE i \in ResolvingColumns(field, CalledColumns) :
                      \A j \in 1..(i - 1) : j \notin ResolvingColumns(field, CalledColumns)]

\* the sort clauses of the instance whose field resolves, in their order
ResolvingSortClause(c) == Resolves(c.Field, CalledColumns)
KeptSortClauses == SelectSeq(as[1].sortClauses, ResolvingSortClause)

\* the query of the instance has a field that several columns match
Colliding ==
    \E i \in 1..Len(as[1].whereClauses) :
        Cardinality(ResolvingColumns(as[1].whereClauses[i].Field, CalledColumns)) >= 2

\* C30: column resolution is deterministic when names collide: a field that
\* matches several supplied columns, by name or alias and in any letter case,
\* is resolved to the one that comes first in the supplied order, an alias
\* match on it taking precedence over a name match on a later column, and every
\* clause and every sort entry is emitted once, under that one column.
C30_FirstMatchingColumnWins ==
    (as # <<>> /\ CalledColumns # <<>>)
    => /\ whereStmt # <<>> =>
              /\ Len(WhereBodyFragments) = Len(KeptClauses)
              /\ \A i \in 1..Len(KeptClauses) :
                     WhereBodyFragments[i]
                         = Clause_Sql(KeptClauses[i], FirstMatching(KeptClauses[i].Field).Name)
       /\ sortStmt # <<>> =>
              /\ Len(SortBodyFragments) = Len(KeptSortClauses)
              /\ \A i \in 1..Len(KeptSortClauses) :
                     SortBodyFragments[i]
                         = FirstMatching(KeptSortClauses[i].Field).Name
                           \o (IF KeptSortClauses[i].Direction = Desc
                               THEN Str(" DESC") ELSE Str(" ASC"))
       /\ (/\ CalledColumns = CollidingColumns
           /\ CalledTokens = <<Pred(<<Str("field2"), Str(">"), Str("10")>>),
                               Pred(<<Str("F1"), Str("like"), Str("x")>>),
                               SortTok(<<Str("field2"), Str("F2__desc"), Str("f1")>>)>>)
          => /\ whereStmt # <<>> => whereStmt[1] = Str("first > 10 AND first LIKE '%x%'")
             /\ sortStmt # <<>> => sortStmt[1] = Str("first ASC, field2 DESC, first ASC")

C30_Witness ==
    /\ as # <<>> /\ whereStmt # <<>> /\ sortStmt # <<>>
    /\ CalledColumns = CollidingColumns
    /\ Colliding
    /\ CalledTokens[1] = Pred(<<Str("field2"), Str(">"), Str("10")>>)
    /\ whereStmt[1] = Str("first > 10 AND first LIKE '%x%'")
    /\ sortStmt[1] = Str("first ASC, field2 DESC, first ASC")

====
